---- MODULE Spec2Model ----
(***************************************************************************)
(* Model of the heightmap <-> world-file converters of world/examples:     *)
(*                                                                         *)
(*   convert_to_bin.rs, convert_to_bin_s.rs   PNG -> .bin  ("pack")        *)
(*   convert_heightmap.rs,                                                 *)
(*   convert_all_heightmaps.rs                .bin -> PNG  ("unpack")      *)
(*                                                                         *)
(* Numbers.  u32 values are pairs <<hi, lo>> of 16-bit halves and their    *)
(* arithmetic wraps modulo 2^32, as in the --release build the examples'   *)
(* usage comments ask for (a build with overflow checks panics where this  *)
(* arithmetic wraps).  f32 and f64 values are exact rationals <<n, d>>,    *)
(* d > 0, in lowest terms: on the values the model draws (small integers   *)
(* and multiples of 1/255 of them) the rounding error of the float         *)
(* operations is below 2^-20 relative and never moves a quotient across a  *)
(* rounding boundary of round().  Non-finite float values are not drawn.   *)
(***************************************************************************)
EXTENDS Integers, Sequences, FiniteSets, TLC

(***************************************************************************)
(* Bounds of the model.                                                    *)
(***************************************************************************)
\* valid images are turned into altitude grids up to side 2^MaxExponent
MaxExponent == 2
\* the directory of the batch holds 1..MaxFiles entries
MaxFiles == 3
\* the batch renders maps of 1..MaxMapSide by 1..MaxMapSide cells (main sets 1024)
MaxMapSide == 2
\* the grids of the codec harness: 1..MaxLen cells of altitude -MaxAlt..MaxAlt
MaxLen == 4
MaxAlt == 2
\* the grids of the smoothing harness: up to MaxSide by MaxSide cells, of which
\* up to MaxHot are raised by 1..MaxLevel
MaxSide == 3
MaxHot == 2
MaxLevel == 2

(***************************************************************************)
(* Rationals.                                                              *)
(***************************************************************************)
Abs(x) == IF x < 0 THEN -x ELSE x

RECURSIVE GCD(_, _)
GCD(a, b) == IF b = 0 THEN a ELSE GCD(b, a % b)

\* the rational n/d (d # 0) in lowest terms, denominator positive
Rat(n, d) ==
    LET g == GCD(Abs(n), Abs(d))
        s == IF d < 0 THEN -1 ELSE 1
    IN  <<(s * n) \div g, (s * d) \div g>>

RatInt(k) == <<k, 1>>
RatAdd(a, b) == Rat(a[1] * b[2] + b[1] * a[2], a[2] * b[2])
RatSub(a, b) == Rat(a[1] * b[2] - b[1] * a[2], a[2] * b[2])
RatMul(a, b) == Rat(a[1] * b[1], a[2] * b[2])
\* b # 0
RatDiv(a, b) == Rat(a[1] * b[2], a[2] * b[1])
RatLess(a, b) == a[1] * b[2] < b[1] * a[2]
RatIsZero(a) == a[1] = 0

(***************************************************************************)
(* u32 arithmetic, <<hi, lo>> with hi, lo in 0..65535.                     *)
(***************************************************************************)
Half == 256 * 256

U32(hi, lo) == <<hi, lo>>

\* 2^n, n >= 0
RECURSIVE TwoTo(_)
TwoTo(n) == IF n = 0 THEN 1 ELSE 2 * TwoTo(n - 1)

\* the u32 2^n, 0 <= n <= 31
U32Pow2(n) == IF n < 16 THEN U32(0, TwoTo(n)) ELSE U32(TwoTo(n - 16), 0)

\* the value of a u32 below 2^15 as a natural number
ToNat(w) == w[2]

\* x * y modulo 2^16, for 16-bit x and y, no intermediate above 2^24
MulLow16(x, y) == ((((x \div 256) * y) % 256) * 256 + (x % 256) * y) % Half

\* the high 16 bits of the 32-bit product x * y, for 16-bit x and y
MulHigh16(x, y) ==
    LET x1 == x \div 256
        x0 == x % 256
        y1 == y \div 256
        y0 == y % 256
        mid == x1 * y0 + x0 * y1
        t == x0 * y0 + (mid % 256) * 256
    IN  x1 * y1 + mid \div 256 + t \div Half

\* u32::count_ones of a 16-bit half
RECURSIVE CountOnes16(_)
CountOnes16(x) == IF x = 0 THEN 0 ELSE (x % 2) + CountOnes16(x \div 2)

\* trailing zero bits of a nonzero 16-bit half
RECURSIVE TrailingZeros16(_)
TrailingZeros16(x) == IF x % 2 = 1 THEN 0 ELSE 1 + TrailingZeros16(x \div 2)

\* a wrapping u32 multiplication (width * height, (1 << n) * (1 << n))
MulU32(a, b) ==
    U32((MulHigh16(a[2], b[2]) + MulLow16(a[1], b[2]) + MulLow16(a[2], b[1])) % Half,
        MulLow16(a[2], b[2]))

\* u32::is_power_of_two: exactly one bit set
IsPowerOfTwoOrZero(w) == CountOnes16(w[1]) + CountOnes16(w[2]) <= 1
IsPowerOfTwo(w) == CountOnes16(w[1]) + CountOnes16(w[2]) = 1

\* u32::trailing_zeros; 32 for 0
TrailingZerosLowHalf(w) ==
    IF w[2] # 0 THEN TrailingZeros16(w[2])
    ELSE IF w[1] # 0 THEN TrailingZeros16(w[1])
    ELSE 32
TrailingZeros(w) ==
    IF w[2] # 0 THEN TrailingZeros16(w[2])
    ELSE IF w[1] # 0 THEN 16 + TrailingZeros16(w[1])
    ELSE 32

\* 1 << n on u32; the shift amount is taken modulo 32
Shl1Narrow(n) == U32Pow2(n % 16)
Shl1(n) == U32Pow2(n % 32)

(***************************************************************************)
(* Optional values: <<>> is "not set", <<v>> is v.                         *)
(***************************************************************************)
None == <<>>
Some(v) == <<v>>

(***************************************************************************)
(* Smoothing filter, convert_to_bin_s.rs smooth_altitudes.                 *)
(***************************************************************************)
\* the (dy, dx) pairs of the 3x3 kernel, in the order of the two loops
KernelOffsets ==
    << <<-1, -1>>, <<-1, 0>>, <<-1, 1>>,
       << 0, -1>>, << 0, 0>>, << 0, 1>>,
       << 1, -1>>, << 1, 0>>, << 1, 1>> >>

\* the bounds test of the kernel loop
InBounds(nx, ny, w, h) == nx >= 0 /\ ny >= 0 /\ nx < w /\ ny < h

\* <<sum, count>> after kernel offsets k..9 were added to acc, for cell (x, y)
RECURSIVE KernelSum(_, _, _, _, _, _, _)
KernelSum(alt, w, h, x, y, k, acc) ==
    IF k > Len(KernelOffsets) THEN acc
    ELSE LET ny == y + KernelOffsets[k][1]
             nx == x + KernelOffsets[k][2]
             idx == ny * w + nx
         IN  KernelSum(alt, w, h, x, y, k + 1,
                 IF InBounds(nx, ny, w, h)
                 THEN <<RatAdd(acc[1], alt[idx + 1]), acc[2] + 1>>
                 ELSE acc)

\* sum / count of cell (x, y)
SmoothCell(alt, w, h, x, y) ==
    LET acc == KernelSum(alt, w, h, x, y, 1, <<RatInt(0), 0>>)
    IN  RatDiv(acc[1], RatInt(acc[2]))

\* a faulty variant of the loop below: the kernel reads the grid being written
RECURSIVE SmoothInPlaceFrom(_, _, _, _)
SmoothInPlaceFrom(out, w, h, i) ==
    IF i > w * h THEN out
    ELSE SmoothInPlaceFrom(
             [out EXCEPT ![i] = SmoothCell(out, w, h, (i - 1) % w, (i - 1) \div w)],
             w, h, i + 1)

\* the loop over y and x with cells i..w*h still to do: the kernel reads alt
RECURSIVE SmoothFrom(_, _, _, _, _)
SmoothFrom(alt, out, w, h, i) ==
    IF i > w * h THEN out
    ELSE SmoothFrom(alt,
             [out EXCEPT ![i] = SmoothCell(alt, w, h, (i - 1) % w, (i - 1) \div w)],
             w, h, i + 1)

\* smooth_altitudes(alt, width, height), for Len(alt) >= w * h (a shorter alt
\* panics at its first missing index); out starts as a copy of alt
SmoothAltitudesInPlace(alt, w, h) == SmoothInPlaceFrom(alt, w, h, 1)
SmoothAltitudes(alt, w, h) == SmoothFrom(alt, alt, w, h, 1)

(***************************************************************************)
(* Reverse mapping of the pack direction: pixel -> altitude.               *)
(***************************************************************************)
\* const ALTITUDE_BIAS: f64 = -600.0 of convert_to_bin.rs
ALTITUDE_BIAS == RatInt(-600)

\* (r / 255.0) * scale_factor + bias
PixelToAltitudeIntDiv(r, scale, bias) ==
    RatAdd(RatMul(RatInt(r \div 255), scale), bias)
PixelToAltitude(r, scale, bias) ==
    RatAdd(RatMul(RatDiv(RatInt(r), RatInt(255)), scale), bias)

(***************************************************************************)
(* Forward mapping of the unpack direction: altitude -> pixel              *)
(* (convert_heightmap.rs and convert_all_heightmaps.rs, the same code).    *)
(***************************************************************************)
\* f32::MAX and f32::MIN, the start values of the scan: above and below every
\* value drawn, and compared as such by RatLess
F32_MAX == <<1, 0>>
F32_MIN == <<-1, 0>>

\* map.alt.iter().map(|&x| x as f32): exact on the values drawn
AsF32(alt) == [i \in 1..Len(alt) |-> alt[i]]

\* the loop of compute_min_max from element i on
RECURSIVE MinMaxFrom(_, _, _)
MinMaxFrom(alt_array, i, acc) ==
    IF i > Len(alt_array) THEN acc
    ELSE LET val == alt_array[i]
             min == IF RatLess(val, acc[1]) THEN val ELSE acc[1]
             max == IF RatLess(acc[2], val) THEN val ELSE acc[2]
         IN  MinMaxFrom(alt_array, i + 1, <<min, max>>)

\* compute_min_max(alt_array) = <<min, max>>
ComputeMinMax(alt_array) == MinMaxFrom(alt_array, 1, <<F32_MAX, F32_MIN>>)

\* f32::round: to the nearest integer, halves away from zero
RoundTruncating(q) ==
    IF q[1] >= 0 THEN q[1] \div q[2] ELSE -((-q[1]) \div q[2])
Round(q) ==
    IF q[1] >= 0 THEN (2 * q[1] + q[2]) \div (2 * q[2])
    ELSE -((2 * (-q[1]) + q[2]) \div (2 * q[2]))

\* `as u8` of a float with an integer value: saturating
AsU8(k) == IF k < 0 THEN 0 ELSE IF k > 255 THEN 255 ELSE k

\* let range = if range == 0.0 { 1.0 } else { range }
RangeOf(min, max) ==
    LET range == RatSub(max, min)
    IN  IF RatIsZero(range) THEN RatInt(1) ELSE range

\* (((alt - min) / range) * 255.0).round() as u8
PixelValue(alt, min, range) ==
    AsU8(Round(RatMul(RatDiv(RatSub(alt, min), range), RatInt(255))))

\* the pixels generate_heightmap writes, row-major (pixel (x, y) reads
\* alt_array[y * width + x]), for Len(alt_array) >= width * height
HeightmapPixels(alt_array, w, h, min, max) ==
    [i \in 1..(w * h) |-> PixelValue(alt_array[i], min, RangeOf(min, max))]

(***************************************************************************)
(* The pack programs: main of convert_to_bin.rs and convert_to_bin_s.rs.   *)
(***************************************************************************)
VARIABLES
    prog,             \* which example runs
    input,            \* the PNG file named by args[1]
    scale_factor,     \* args[2], parsed
    height_offset,    \* args[3], parsed (convert_to_bin_s only)
    pc,               \* the position of main
    img,              \* the decoded image
    width, height,    \* img.dimensions()
    exponent,
    alt_vec,
    alt_vec_smoothed,
    world_file,
    out_file,         \* the bytes written to the .bin file
    exit_msg          \* the message of the exit(1) or panic that ended main

packVars == <<prog, input, scale_factor, height_offset, pc, img, width, height,
              exponent, alt_vec, alt_vec_smoothed, world_file, out_file, exit_msg>>

\* the state of the batch unpack program
VARIABLES
    dir,              \* read_dir(folder_path): the entries, in iteration order
    entry,            \* the index in dir of the entry the loop is at
    upc,              \* the position of main / process_bin_file
    u_width, u_height,\* width and height of main
    alt_array,
    min_alt, max_alt,
    pngs,             \* pngs[i]: the pixels of the PNG written for dir[i]
    panic_msg

unpackVars == <<dir, entry, upc, u_width, u_height, alt_array, min_alt, max_alt,
                pngs, panic_msg>>

\* the state of the harness of the pure functions
VARIABLES
    stage,            \* the position of the harness
    grid,             \* the input altitude grid
    grid_w, grid_h,   \* its width and height
    first,            \* the first forward mapping: [min, max, pixels]
    decoded,          \* the pixels of first mapped back to altitudes
    second,           \* the forward mapping of decoded
    smoothed          \* smooth_altitudes(grid, grid_w, grid_h)

harnessVars == <<stage, grid, grid_w, grid_h, first, decoded, second, smoothed>>

vars == <<packVars, unpackVars, harnessVars>>

\* channel 0 of pixel i (row-major, i = y * width + x) of a decoded image: the
\* rasters drawn are the gradients base + i * step modulo 256
Pixel(image, i) == (image.base + i * image.step) % 256

\* the bias of the reverse mapping
Bias == IF prog = "convert_to_bin_s" THEN height_offset[1] ELSE ALTITUDE_BIAS

\* let continent_scale = 1.6 (convert_to_bin.rs), 1.5 (convert_to_bin_s.rs)
ContinentScale == IF prog = "convert_to_bin_s" THEN Rat(3, 2) ELSE Rat(8, 5)

\* bincode::serialize(&world_file): the variant tag, then the fields in order,
\* the two arrays length-prefixed
Serialize(wf) ==
    <<wf.variant, wf.map.map_size_lg[1], wf.map.map_size_lg[2],
      wf.map.continent_scale_hack, Len(wf.map.alt)>>
    \o wf.map.alt \o <<Len(wf.map.basement)>> \o wf.map.basement

\* the messages of the three exit(1) of the dimension validation
NotSquare == "Image width and height must be equal."
NotPowerOfTwo == "Image width (and height) must be a power of two."
PixelCountMismatch == "Pixel count mismatch"

\* a faulty variant of Decode: the pixels of a small image are converted to
\* altitudes as soon as the image is decoded
DecodeThenConvert ==
    /\ pc = "decode"
    /\ ~input.corrupt
    /\ img' = Some(input)
    /\ width' = Some(input.width)
    /\ height' = Some(input.height)
    /\ alt_vec' = IF input.width[1] = 0 /\ input.height[1] = 0
                     /\ input.width[2] * input.height[2] <= 16
                  THEN [i \in 1..(input.width[2] * input.height[2]) |->
                           PixelToAltitude(Pixel(input, i - 1), scale_factor, Bias)]
                  ELSE <<>>
    /\ pc' = "check_square"
    /\ UNCHANGED <<prog, input, scale_factor, height_offset, exponent,
                   alt_vec_smoothed, world_file, out_file, exit_msg>>
    /\ UNCHANGED <<unpackVars, harnessVars>>

\* ImageReader::open(..).decode(), img.dimensions()
Decode ==
    /\ pc = "decode"
    /\ IF input.corrupt
       THEN /\ pc' = "panic"
            /\ exit_msg' = "Failed to decode image"
            /\ UNCHANGED <<img, width, height>>
       ELSE /\ img' = Some(input)
            /\ width' = Some(input.width)
            /\ height' = Some(input.height)
            /\ pc' = "check_square"
            /\ UNCHANGED exit_msg
    /\ UNCHANGED <<prog, input, scale_factor, height_offset, exponent, alt_vec,
                   alt_vec_smoothed, world_file, out_file>>
    /\ UNCHANGED <<unpackVars, harnessVars>>

\* if width != height { exit(1) }
CheckSquare ==
    /\ pc = "check_square"
    /\ IF width[1] # height[1]
       THEN /\ pc' = "exit"
            /\ exit_msg' = NotSquare
       ELSE /\ pc' = "check_power_of_two"
            /\ UNCHANGED exit_msg
    /\ UNCHANGED <<prog, input, scale_factor, height_offset, img, width, height,
                   exponent, alt_vec, alt_vec_smoothed, world_file, out_file>>
    /\ UNCHANGED <<unpackVars, harnessVars>>

\* if !width.is_power_of_two() { exit(1) }
CheckPowerOfTwo ==
    /\ pc = "check_power_of_two"
    /\ IF ~IsPowerOfTwo(width[1])
       THEN /\ pc' = "exit"
            /\ exit_msg' = NotPowerOfTwo
       ELSE /\ pc' = "check_pixel_count"
            /\ UNCHANGED exit_msg
    /\ UNCHANGED <<prog, input, scale_factor, height_offset, img, width, height,
                   exponent, alt_vec, alt_vec_smoothed, world_file, out_file>>
    /\ UNCHANGED <<unpackVars, harnessVars>>

\* exponent = width.trailing_zeros(); the pixel count test
CheckPixelCount ==
    /\ pc = "check_pixel_count"
    /\ LET e == TrailingZeros(width[1])
           expected_pixels == MulU32(Shl1(e), Shl1(e))
       IN  /\ exponent' = Some(e)
           /\ IF MulU32(width[1], height[1]) # expected_pixels
              THEN /\ pc' = "exit"
                   /\ exit_msg' = PixelCountMismatch
              ELSE /\ pc' = "convert"
                   /\ UNCHANGED exit_msg
    /\ UNCHANGED <<prog, input, scale_factor, height_offset, img, width, height,
                   alt_vec, alt_vec_smoothed, world_file, out_file>>
    /\ UNCHANGED <<unpackVars, harnessVars>>

\* the loop over img.pixels(), pushing one altitude per pixel
ConvertPixels ==
    /\ pc = "convert"
    /\ exponent[1] <= MaxExponent
    /\ alt_vec' = [i \in 1..(ToNat(img[1].width) * ToNat(img[1].height)) |->
                      PixelToAltitude(Pixel(img[1], i - 1), scale_factor, Bias)]
    /\ pc' = IF prog = "convert_to_bin_s" THEN "smooth" ELSE "assemble"
    /\ UNCHANGED <<prog, input, scale_factor, height_offset, img, width, height,
                   exponent, alt_vec_smoothed, world_file, out_file, exit_msg>>
    /\ UNCHANGED <<unpackVars, harnessVars>>

\* let alt_vec_smoothed = smooth_altitudes(&alt_vec, width, height)
Smooth ==
    /\ pc = "smooth"
    /\ alt_vec_smoothed' = SmoothAltitudes(alt_vec, ToNat(width[1]), ToNat(height[1]))
    /\ pc' = "assemble"
    /\ UNCHANGED <<prog, input, scale_factor, height_offset, img, width, height,
                   exponent, alt_vec, world_file, out_file, exit_msg>>
    /\ UNCHANGED <<unpackVars, harnessVars>>

\* the grid moved into the alt field
AltField == IF prog = "convert_to_bin_s" THEN alt_vec_smoothed ELSE alt_vec

\* let basement_vec = alt_vec.clone() (alt_vec_smoothed.clone() when smoothing)
BasementVecUnsmoothed == alt_vec
BasementVec == IF prog = "convert_to_bin_s" THEN alt_vec_smoothed ELSE alt_vec

\* WorldMap_0_7_0 { .. }; WorldFile::Veloren0_7_0(world_map)
Assemble ==
    /\ pc = "assemble"
    /\ world_file' = Some([variant |-> "Veloren0_7_0",
                           map |-> [map_size_lg |-> <<exponent[1], exponent[1]>>,
                                    continent_scale_hack |-> ContinentScale,
                                    alt |-> AltField,
                                    basement |-> BasementVec]])
    /\ pc' = "write"
    /\ UNCHANGED <<prog, input, scale_factor, height_offset, img, width, height,
                   exponent, alt_vec, alt_vec_smoothed, out_file, exit_msg>>
    /\ UNCHANGED <<unpackVars, harnessVars>>

\* bincode::serialize, File::create, write_all
SerializeAndWrite ==
    /\ pc = "write"
    /\ out_file' = Some(Serialize(world_file[1]))
    /\ pc' = "done"
    /\ UNCHANGED <<prog, input, scale_factor, height_offset, img, width, height,
                   exponent, alt_vec, alt_vec_smoothed, world_file, exit_msg>>
    /\ UNCHANGED <<unpackVars, harnessVars>>


(***************************************************************************)
(* The batch unpack program: main of convert_all_heightmaps.rs (main of    *)
(* convert_heightmap.rs is the same run over one fixed file).              *)
(***************************************************************************)

\* the for loop of main: the next entry, processed when its extension is "bin"
MainLoop ==
    /\ upc = "loop"
    /\ IF entry > Len(dir)
       THEN /\ upc' = "done"
            /\ UNCHANGED entry
       ELSE IF dir[entry].ext = "bin"
       THEN /\ upc' = "load"
            /\ UNCHANGED entry
       ELSE /\ entry' = entry + 1
            /\ UNCHANGED upc
    /\ UNCHANGED <<dir, u_width, u_height, alt_array, min_alt, max_alt, pngs,
                   panic_msg>>
    /\ UNCHANGED <<packVars, harnessVars>>

\* load_alt_array(bin_path): every failure is an expect() or a panic!()
LoadAltArray ==
    /\ upc = "load"
    /\ LET file == dir[entry]
       IN  IF file.kind = "world"
           THEN /\ alt_array' = AsF32(file.alt)
                /\ upc' = "min_max"
                /\ UNCHANGED panic_msg
           ELSE /\ upc' = "panic"
                /\ panic_msg' =
                       CASE file.kind = "unopenable" -> "Failed to open file"
                         [] file.kind = "unreadable" -> "Failed to read file"
                         [] file.kind = "garbage" -> "Failed to deserialize world file"
                         [] OTHER -> "Unsupported world file version"
                /\ UNCHANGED alt_array
    /\ UNCHANGED <<dir, entry, u_width, u_height, min_alt, max_alt, pngs>>
    /\ UNCHANGED <<packVars, harnessVars>>

\* let (min_alt, max_alt) = compute_min_max(&alt_array)
ScanMinMax ==
    /\ upc = "min_max"
    /\ LET mm == ComputeMinMax(alt_array)
       IN  /\ min_alt' = mm[1]
           /\ max_alt' = mm[2]
    /\ upc' = "generate"
    /\ UNCHANGED <<dir, entry, u_width, u_height, alt_array, pngs, panic_msg>>
    /\ UNCHANGED <<packVars, harnessVars>>

\* generate_heightmap(alt_array, width, height, &output_path, min_alt, max_alt):
\* alt_array[(y * width + x)] panics past the end of a short array, before
\* anything is encoded or written
GenerateHeightmap ==
    /\ upc = "generate"
    /\ IF Len(alt_array) < u_width * u_height
       THEN /\ upc' = "panic"
            /\ panic_msg' = "index out of bounds"
            /\ UNCHANGED <<entry, pngs>>
       ELSE /\ pngs' = [pngs EXCEPT ![entry] =
                           Some(HeightmapPixels(alt_array, u_width, u_height,
                                                min_alt, max_alt))]
            /\ entry' = entry + 1
            /\ upc' = "loop"
            /\ UNCHANGED panic_msg
    /\ UNCHANGED <<dir, u_width, u_height, alt_array, min_alt, max_alt>>
    /\ UNCHANGED <<packVars, harnessVars>>

(***************************************************************************)
(* Harness for the pure functions: the forward mapping, the reverse        *)
(* mapping applied to its result, the forward mapping again; and           *)
(* smooth_altitudes.                                                       *)
(***************************************************************************)

\* compute_min_max, then generate_heightmap with its result
Unpack(alt, w, h) ==
    LET alt_f32 == AsF32(alt)
        mm == ComputeMinMax(alt_f32)
    IN  [min |-> mm[1], max |-> mm[2],
         pixels |-> HeightmapPixels(alt_f32, w, h, mm[1], mm[2])]

EncodeFirst ==
    /\ stage = "encode"
    /\ first' = Some(Unpack(grid, grid_w, grid_h))
    /\ stage' = "decode"
    /\ UNCHANGED <<grid, grid_w, grid_h, decoded, second, smoothed>>
    /\ UNCHANGED <<packVars, unpackVars>>

\* the reverse mapping with scale_factor = max - min and bias = min
DecodeBack ==
    /\ stage = "decode"
    /\ decoded' = [i \in 1..Len(first[1].pixels) |->
                      PixelToAltitude(first[1].pixels[i],
                                      RatSub(first[1].max, first[1].min),
                                      first[1].min)]
    /\ stage' = "reencode"
    /\ UNCHANGED <<grid, grid_w, grid_h, first, second, smoothed>>
    /\ UNCHANGED <<packVars, unpackVars>>

EncodeSecond ==
    /\ stage = "reencode"
    /\ second' = Some(Unpack(decoded, grid_w, grid_h))
    /\ stage' = "done"
    /\ UNCHANGED <<grid, grid_w, grid_h, first, decoded, smoothed>>
    /\ UNCHANGED <<packVars, unpackVars>>

SmoothGrid ==
    /\ stage = "smooth"
    /\ smoothed' = Some(SmoothAltitudes(grid, grid_w, grid_h))
    /\ stage' = "smoothed"
    /\ UNCHANGED <<grid, grid_w, grid_h, first, decoded, second>>
    /\ UNCHANGED <<packVars, unpackVars>>

(***************************************************************************)
(* Initial states.                                                         *)
(***************************************************************************)
PackIdle ==
    /\ prog = "none"
    /\ input = [width |-> U32(0, 0), height |-> U32(0, 0), base |-> 0, step |-> 0,
                corrupt |-> TRUE]
    /\ scale_factor = RatInt(0)
    /\ height_offset = None
    /\ pc = "idle"
    /\ img = None /\ width = None /\ height = None /\ exponent = None
    /\ alt_vec = <<>> /\ alt_vec_smoothed = <<>>
    /\ world_file = None /\ out_file = None
    /\ exit_msg = ""

UnpackIdle ==
    /\ dir = <<>> /\ entry = 1 /\ upc = "idle"
    /\ u_width = 1 /\ u_height = 1
    /\ alt_array = <<>> /\ min_alt = F32_MAX /\ max_alt = F32_MIN
    /\ pngs = <<>> /\ panic_msg = ""

HarnessIdle ==
    /\ stage = "idle"
    /\ grid = <<>> /\ grid_w = 0 /\ grid_h = 0
    /\ first = None /\ decoded = <<>> /\ second = None /\ smoothed = None

\* image sides drawn: every power of two, zero, and sides that are none
WidthSamples ==
    {U32Pow2(n) : n \in 0..31}
    \cup {U32(0, 0), U32(0, 3), U32(0, 100), U32(0, 65535), U32(1, 1),
          U32(65535, 65535)}

SmallSides == {U32(0, 0), U32(0, 1), U32(0, 2), U32(0, 3), U32(0, 4), U32(0, 100),
               U32(1, 0)}

Dimensions == {<<w, w>> : w \in WidthSamples} \cup (SmallSides \X SmallSides)

InputFiles ==
    {[width |-> d[1], height |-> d[2], base |-> b, step |-> s, corrupt |-> FALSE] :
        d \in Dimensions, b \in {0, 255}, s \in {0, 51, 255}}
    \cup {[width |-> U32(0, 0), height |-> U32(0, 0), base |-> 0, step |-> 0,
           corrupt |-> TRUE]}

InitPack ==
    /\ prog \in {"convert_to_bin", "convert_to_bin_s"}
    /\ input \in InputFiles
    /\ scale_factor \in {RatInt(100), RatInt(1000)}
    /\ height_offset \in IF prog = "convert_to_bin_s"
                         THEN {Some(RatInt(-200)), Some(RatInt(0))}
                         ELSE {None}
    /\ pc = "decode"
    /\ img = None /\ width = None /\ height = None /\ exponent = None
    /\ alt_vec = <<>> /\ alt_vec_smoothed = <<>>
    /\ world_file = None /\ out_file = None
    /\ exit_msg = ""
    /\ UnpackIdle
    /\ HarnessIdle

\* an altitude grid of n cells rising by step from low
Ramp(n, low, step) == [i \in 1..n |-> RatInt(low + step * (i - 1))]

\* the entries a directory may hold when maps have `cells` cells
Entries(cells) ==
    {[ext |-> "bin", kind |-> k, alt |-> <<>>] :
        k \in {"unopenable", "unreadable", "garbage", "other_version"}}
    \cup {[ext |-> "png", kind |-> "garbage", alt |-> <<>>]}
    \cup {[ext |-> "bin", kind |-> "world", alt |-> a] :
            a \in {Ramp(cells - 1, -20, 10), Ramp(cells, -20, 10),
                   Ramp(cells + 1, -20, 10), Ramp(cells, 7, 0)}}

InitUnpack ==
    /\ u_width \in 1..MaxMapSide
    /\ u_height \in 1..MaxMapSide
    /\ \E n \in 1..MaxFiles : dir \in [1..n -> Entries(u_width * u_height)]
    /\ pngs = [i \in 1..Len(dir) |-> None]
    /\ entry = 1
    /\ upc = "loop"
    /\ alt_array = <<>> /\ min_alt = F32_MAX /\ max_alt = F32_MIN
    /\ panic_msg = ""
    /\ PackIdle
    /\ HarnessIdle

InitCodec ==
    /\ \E n \in 1..MaxLen : grid \in [1..n -> {RatInt(a) : a \in (-MaxAlt)..MaxAlt}]
    /\ grid_w \in {w \in 1..Len(grid) : Len(grid) % w = 0}
    /\ grid_h = Len(grid) \div grid_w
    /\ stage = "encode"
    /\ first = None /\ decoded = <<>> /\ second = None /\ smoothed = None
    /\ PackIdle
    /\ UnpackIdle

InitSmooth ==
    /\ grid_w \in 1..MaxSide
    /\ grid_h \in 1..MaxSide
    /\ \E hot \in {H \in SUBSET (1..(grid_w * grid_h)) : Cardinality(H) <= MaxHot},
          level \in 1..MaxLevel, slope \in {0, 1} :
          grid = [i \in 1..(grid_w * grid_h) |->
                     RatInt(slope * (i - 1) + IF i \in hot THEN level ELSE 0)]
    /\ stage = "smooth"
    /\ first = None /\ decoded = <<>> /\ second = None /\ smoothed = None
    /\ PackIdle
    /\ UnpackIdle

(***************************************************************************)
(* Specifications.                                                         *)
(***************************************************************************)
NextPack ==
    \/ Decode
    \/ CheckSquare
    \/ CheckPowerOfTwo
    \/ CheckPixelCount
    \/ ConvertPixels
    \/ Smooth
    \/ Assemble
    \/ SerializeAndWrite

NextUnpack ==
    \/ MainLoop
    \/ LoadAltArray
    \/ ScanMinMax
    \/ GenerateHeightmap

NextCodec ==
    \/ EncodeFirst
    \/ DecodeBack
    \/ EncodeSecond

NextSmooth == SmoothGrid

\* the pack programs
Spec == InitPack /\ [][NextPack]_vars
\* the batch unpack program
SpecUnpack == InitUnpack /\ [][NextUnpack]_vars
\* forward mapping, reverse mapping, forward mapping
SpecCodec == InitCodec /\ [][NextCodec]_vars
\* smooth_altitudes
SpecSmooth == InitSmooth /\ [][NextSmooth]_vars

(***************************************************************************)
(* Properties.                                                             *)
(***************************************************************************)
\* w is one of 2^0 .. 2^31
IsTwoPower(w) == \E n \in 0..31 : w = U32Pow2(n)

\* main is past the three checks of the dimensions
PastValidation == pc \in {"convert", "smooth", "assemble", "write", "done", "exit"}

\* C1: a square image whose side is a power of two passes validation with the
\* exponent n, 2^n = width; an image that is not square ends with NotSquare, a
\* square one whose side is no power of two (0 included) with NotPowerOfTwo, and
\* neither leaves an exponent or a world map.
C1_DimensionValidation ==
    (pc \notin {"idle", "decode", "panic"}) =>
        LET w == input.width
            h == input.height
        IN  /\ (w = h /\ IsTwoPower(w) /\ PastValidation) =>
                   /\ pc # "exit" /\ exit_msg = ""
                   /\ exponent # None
                   /\ exponent[1] \in 0..31
                   /\ U32Pow2(exponent[1]) = w
            /\ (w # h /\ pc # "check_square") =>
                   /\ pc = "exit" /\ exit_msg = NotSquare
                   /\ exponent = None /\ world_file = None /\ out_file = None
            /\ (w = h /\ ~IsTwoPower(w)
                  /\ pc \notin {"check_square", "check_power_of_two"}) =>
                   /\ pc = "exit" /\ exit_msg = NotPowerOfTwo
                   /\ exponent = None /\ world_file = None /\ out_file = None

\* a 2^20 x 2^20 image has passed validation
C1_Witness == pc = "convert" /\ input.width = U32Pow2(20) /\ exponent = Some(20)

\* 2^n * 2^n modulo 2^32
SquareMod32(n) == IF 2 * n >= 32 THEN U32(0, 0) ELSE U32Pow2(2 * n)

\* C10: the pixel count check never fails: once the exponent n is taken,
\* (1 << n) * (1 << n) = width * height = 2^(2n) modulo 2^32, for sides up to 2^31.
C10_PixelCountNeverFails ==
    /\ exit_msg # PixelCountMismatch
    /\ exponent # None =>
           LET n == exponent[1]
           IN  /\ MulU32(Shl1(n), Shl1(n)) = MulU32(width[1], height[1])
               /\ MulU32(width[1], height[1]) = SquareMod32(n)

\* a 2^16 x 2^16 image, whose pixel count wraps to 0, has passed the check
C10_Witness == pc = "convert" /\ exponent = Some(16) /\ width = Some(U32(1, 0))

\* C5: a world map built by either pack program has map_size_lg = (n, n) for the
\* exponent n of the validation, equal alt and basement, and 2^n * 2^n =
\* width * height cells in each.
C5_WorldMapShape ==
    world_file # None =>
        LET map == world_file[1].map
            n == exponent[1]
        IN  /\ map.map_size_lg = <<n, n>>
            /\ U32Pow2(n) = input.width
            /\ map.alt = map.basement
            /\ Len(map.alt) = Len(map.basement)
            /\ Len(map.alt) = TwoTo(n) * TwoTo(n)
            /\ Len(map.alt) = ToNat(input.width) * ToNat(input.height)

\* the smoothing program has built the map of a 4 x 4 image
C5_Witness ==
    /\ world_file # None
    /\ prog = "convert_to_bin_s"
    /\ exponent = Some(2)
    /\ alt_vec_smoothed # alt_vec

\* C6: the world map built by pack holds the scale_factor argument in its scale
\* field (continent_scale_hack).
C6_ScaleFactorStored ==
    world_file # None => world_file[1].map.continent_scale_hack = scale_factor

\* C8 as stated: a run that ends with NotPowerOfTwo has not decoded the raster,
\* converted a pixel, or serialized or written a world file.
C8_FailsBeforeDecode ==
    exit_msg = NotPowerOfTwo =>
        /\ img = None
        /\ alt_vec = <<>> /\ world_file = None /\ out_file = None

\* C8, amended: a square image whose side is no power of two ends with
\* NotPowerOfTwo after the raster was decoded, and in no state of its run has a
\* pixel been converted to an altitude or a world file been built or written.
C8_FailsBeforeConversion ==
    /\ (pc # "idle" /\ ~input.corrupt /\ input.width = input.height
          /\ ~IsTwoPower(input.width)) =>
           /\ alt_vec = <<>> /\ alt_vec_smoothed = <<>>
           /\ world_file = None /\ out_file = None
    /\ exit_msg = NotPowerOfTwo =>
           /\ pc = "exit"
           /\ img # None

\* a 100 x 100 image has ended with NotPowerOfTwo
C8_Witness ==
    /\ exit_msg = NotPowerOfTwo
    /\ input.width = U32(0, 100) /\ input.height = U32(0, 100)

\* the range the forward mapping divides by: max - min, 1 when that is zero
GuardedRange(min, max) ==
    IF max = min THEN RatInt(1) ELSE RatSub(max, min)

\* p is (v - min) / range * 255 rounded to the nearest integer, halves upwards:
\* 2 * range * p - range <= 510 * (v - min) < 2 * range * p + range
IsNearest(p, v, min, range) ==
    LET x == RatMul(RatInt(510), RatSub(v, min))
        mid == RatMul(RatInt(2 * p), range)
    IN  /\ ~RatLess(x, RatSub(mid, range))
        /\ RatLess(x, RatAdd(mid, range))

\* C2: the forward mapping of a non-empty grid uses the least and the greatest
\* value of the grid as min and max; every pixel is
\* round((value - min) / range * 255), range = max - min or 1 when that is zero,
\* and lies in 0..255; when max > min the cells equal to min map to 0 and those
\* equal to max to 255; when max = min every pixel is 0.
C2_ForwardNormalization ==
    first # None =>
        LET f == first[1]
            cells == 1..Len(grid)
        IN  /\ \A i \in cells : ~RatLess(grid[i], f.min) /\ ~RatLess(f.max, grid[i])
            /\ \E i \in cells : grid[i] = f.min
            /\ \E i \in cells : grid[i] = f.max
            /\ Len(f.pixels) = Len(grid)
            /\ \A i \in cells :
                   /\ f.pixels[i] \in 0..255
                   /\ IsNearest(f.pixels[i], grid[i], f.min, GuardedRange(f.min, f.max))
                   /\ RatLess(f.min, f.max) =>
                          /\ grid[i] = f.min => f.pixels[i] = 0
                          /\ grid[i] = f.max => f.pixels[i] = 255
                   /\ f.max = f.min => f.pixels[i] = 0

\* a grid with a cell half way between min and max: 127.5 is rounded to 128
C2_Witness ==
    /\ first # None
    /\ RatLess(first[1].min, first[1].max)
    /\ \E i \in 1..Len(grid) : first[1].pixels[i] = 128

\* C3: the image of a grid, mapped back to altitudes with scale = max - min and
\* bias = min and mapped forward again, is the same image; a grid with
\* max = min gives an image whose samples are all equal.
C3_QuantizationIdempotent ==
    stage = "done" =>
        /\ second[1].pixels = first[1].pixels
        /\ first[1].max = first[1].min =>
               \A i, j \in 1..Len(grid) : first[1].pixels[i] = first[1].pixels[j]

\* the round trip of an image with a sample strictly between 0 and 255, from a
\* grid the decoded altitudes do not reproduce
C3_Witness ==
    /\ stage = "done"
    /\ \E i \in 1..Len(grid) : first[1].pixels[i] \notin {0, 255}
    /\ decoded # grid

\* the cells of a w x h grid at distance at most 1 from (x, y), itself included
Neighbourhood(x, y, w, h) ==
    {c \in (0..(w - 1)) \X (0..(h - 1)) : Abs(c[1] - x) <= 1 /\ Abs(c[2] - y) <= 1}

\* the sum of the values of g at the cells of S
RECURSIVE SumOver(_, _, _)
SumOver(S, g, w) ==
    IF S = {} THEN RatInt(0)
    ELSE LET c == CHOOSE c \in S : TRUE
         IN  RatAdd(g[c[2] * w + c[1] + 1], SumOver(S \ {c}, g, w))

\* 4 at a corner, 6 on an edge, 9 in the interior (w, h >= 2)
ContributorCount(x, y, w, h) ==
    (IF x \in {0, w - 1} THEN 2 ELSE 3) * (IF y \in {0, h - 1} THEN 2 ELSE 3)

C4_MeanOfNeighbourhood ==
    smoothed # None =>
        LET out == smoothed[1]
        IN  /\ Len(out) = Len(grid)
            /\ \A x \in 0..(grid_w - 1), y \in 0..(grid_h - 1) :
                   LET N == Neighbourhood(x, y, grid_w, grid_h)
                   IN  /\ out[y * grid_w + x + 1]
                              = RatDiv(SumOver(N, grid, grid_w), RatInt(Cardinality(N)))
                       /\ (grid_w >= 2 /\ grid_h >= 2) =>
                              Cardinality(N) = ContributorCount(x, y, grid_w, grid_h)

\* C4: smooth_altitudes returns a grid of the length of its input and leaves the
\* input as it was; each cell of the result is the sum of the input at the cell
\* and at its neighbours inside the grid, divided by their number (4 at a
\* corner, 6 on an edge, 9 in the interior), with no wraparound or replication,
\* and is computed from the input, not from cells already smoothed.
C4_SmoothAltitudes == [](C4_MeanOfNeighbourhood) /\ [][grid' = grid]_vars

\* a 3 x 3 grid, which has corners, edges and an interior cell, was smoothed
\* into a different grid
C4_Witness ==
    /\ smoothed # None
    /\ grid_w = 3 /\ grid_h = 3
    /\ smoothed[1] # grid

\* the cells main renders per map
MapCells == u_width * u_height

\* C7: a surface grid whose length is not width * height, shorter or longer, is
\* fatal: no image is produced from it.
C7_SizeMismatchIsFatal ==
    \A i \in 1..Len(dir) :
        (dir[i].ext = "bin" /\ dir[i].kind = "world" /\ Len(dir[i].alt) # MapCells)
            => pngs[i] = None

\* C9: a .bin file with malformed data is reported and skipped: when the batch
\* has ended, every well-formed .bin file of the directory has its PNG, wherever
\* the malformed files stand (directories whose maps all have width * height cells).
C9_BatchSkipsMalformed ==
    (/\ upc \in {"done", "panic"}
     /\ \A j \in 1..Len(dir) : dir[j].kind = "world" => Len(dir[j].alt) = MapCells)
        => \A i \in 1..Len(dir) :
               (dir[i].ext = "bin" /\ dir[i].kind = "world") => pngs[i] # None

====
